---- MODULE Spec2Model ----
(***************************************************************************)
(* linode_dyndns: one run of _main() as a state machine, over a provider   *)
(* account (domains, resources) and the cache file on disk, which outlive  *)
(* the runs.  Spec runs the program several times in a row, SpecResolve   *)
(* once against every provider list, SpecErrors once against a provider   *)
(* that answers with lists of errors, SpecConcurrent as two processes.    *)
(*                                                                         *)
(* Data strings (user inputs, names, identifiers, IP addresses) are        *)
(* sequences of one-character strings, so that str(), strip(), lower(),    *)
(* concatenation and inet_aton() are computed character by character.      *)
(* Labels (pc, api_action, error kinds) are plain TLA+ strings.            *)
(***************************************************************************)
EXTENDS Integers, Sequences, FiniteSets, TLC

VARIABLES
  domains,        \* provider: the account's domain list, in response order
  resources,      \* provider: the resource records of all the domains
  cacheFile,      \* disk: linode_dyndns_cache.ini, section name -> text of "ip"
  pc,             \* position of the running process in _main()
  args,           \* parsed command line
  LINODE_API_KEY, \* module global _LINODE_API_KEY
  userDomainId,   \* _main: userDomainId
  userResourceId, \* _main: userResourceId
  ip,             \* _main: ip
  cache,          \* _main: cache (the ConfigParser object)
  cacheKeyName,   \* _main: cacheKeyName
  domainId,       \* _main: domainId
  resourceId,     \* _main: resourceId
  exitStatus,     \* <<>> while running, <<status>> once exited
  error,          \* which _handleError() call ended the run, "none" otherwise
  report,         \* the message _handleError() printed, None otherwise
  calls,          \* history: the provider API calls of this run, in order
  lookups,        \* history: external-IP lookups of this run
  writes,         \* history: writes of the cache file by this run
  cacheAtStart,   \* history: the cache file as this run found it
  targetBefore,   \* history: provider-side target of the record when update was called
  prev,           \* history: inputs and exit status of the previous run
  budget,         \* runs that may still be started
  pushed,         \* history: targets of the update calls answered without error
  errorLists,     \* provider: the ERRORARRAYs it may answer a call with
  other           \* a second process of the program, while it is not stepping

env  == <<domains, resources, cacheFile>>
proc == <<pc, args, LINODE_API_KEY, userDomainId, userResourceId, ip, cache,
          cacheKeyName, domainId, resourceId, exitStatus, error, report>>
hist == <<calls, lookups, writes, cacheAtStart, targetBefore, prev, budget, pushed, errorLists, other>>
vars == <<env, proc, hist, pushed, errorLists, other>>

\* Number of runs of the program one behaviour may hold.
MaxRuns == 2
\* Longest provider list the resolution specification enumerates.
MaxLen == 2
\* Longest ERRORARRAY a provider response carries.
MaxErrors == 2

----------------------------------------------------------------------------
\* Strings

\* Python None / an unbound local: a value no string equals.
None == <<"<None>">>

DigitChars == <<"0", "1", "2", "3", "4", "5", "6", "7", "8", "9">>
UpperChars == <<"A", "B", "C", "D", "E", "F", "G", "H", "I", "J", "K", "L", "M",
                "N", "O", "P", "Q", "R", "S", "T", "U", "V", "W", "X", "Y", "Z">>
LowerChars == <<"a", "b", "c", "d", "e", "f", "g", "h", "i", "j", "k", "l", "m",
                "n", "o", "p", "q", "r", "s", "t", "u", "v", "w", "x", "y", "z">>

IndexIn(c, chars) == CHOOSE i \in 1..Len(chars) : chars[i] = c
Range(s) == {s[i] : i \in 1..Len(s)}

\* str(n) of a non-negative int: its decimal digits.
RECURSIVE str(_)
str(n) == IF n < 10 THEN <<DigitChars[n + 1]>>
          ELSE str(n \div 10) \o <<DigitChars[(n % 10) + 1]>>

\* s.lower()
lower(s) == [i \in 1..Len(s) |->
              IF s[i] \in Range(UpperChars)
              THEN LowerChars[IndexIn(s[i], UpperChars)] ELSE s[i]]

isspace(c) == c \in {" ", "\n", "\t"}

RECURSIVE lstrip(_)
lstrip(s) == IF s # <<>> /\ isspace(Head(s)) THEN lstrip(Tail(s)) ELSE s
RECURSIVE rstrip(_)
rstrip(s) == IF s # <<>> /\ isspace(s[Len(s)])
             THEN rstrip(SubSeq(s, 1, Len(s) - 1)) ELSE s
\* s.strip()
strip(s) == rstrip(lstrip(s))

----------------------------------------------------------------------------
\* socket.inet_aton(): the C library's parser.  A number is read as by
\* strtoul(cp, &endp, 0) (0x = hex, leading 0 = octal, else decimal) into 32
\* bits, kept here as two 16-bit halves [hi, lo]; ovf marks a value past 32 bits.

HexLower == <<"a", "b", "c", "d", "e", "f">>
HexUpper == <<"A", "B", "C", "D", "E", "F">>
isdigit(c) == c \in Range(DigitChars)
DigitValue(c) ==
  IF c \in Range(DigitChars) THEN IndexIn(c, DigitChars) - 1
  ELSE IF c \in Range(HexLower) THEN IndexIn(c, HexLower) + 9
  ELSE IF c \in Range(HexUpper) THEN IndexIn(c, HexUpper) + 9
  ELSE 99
IsDigitOf(c, base) == DigitValue(c) < base

\* val * base + d in 32 bits
Accumulate(val, base, d) ==
  LET lo == val.lo * base + d
      hi == val.hi * base + (lo \div 65536)
  IN  [hi |-> hi % 65536, lo |-> lo % 65536, ovf |-> val.ovf \/ hi >= 65536]

RECURSIVE ReadDigits(_, _, _, _)
ReadDigits(s, i, base, val) ==
  IF i <= Len(s) /\ IsDigitOf(s[i], base)
  THEN ReadDigits(s, i + 1, base, Accumulate(val, base, DigitValue(s[i])))
  ELSE [val |-> val, end |-> i]

\* strtoul(s + i - 1, &endp, 0), for s[i] a decimal digit
strtoul(s, i) ==
  LET zero == [hi |-> 0, lo |-> 0, ovf |-> FALSE]
  IN  IF s[i] = "0" /\ i + 2 <= Len(s) /\ s[i + 1] \in {"x", "X"}
         /\ IsDigitOf(s[i + 2], 16)
      THEN ReadDigits(s, i + 2, 16, zero)
      ELSE IF s[i] = "0" THEN ReadDigits(s, i, 8, zero)
      ELSE ReadDigits(s, i, 10, zero)

\* The parts loop: parts is the number of "."-terminated parts already stored.
RECURSIVE AtonFrom(_, _, _)
AtonFrom(s, i, parts) ==
  IF i > Len(s) \/ ~isdigit(s[i]) THEN FALSE
  ELSE LET n   == strtoul(s, i)
           val == n.val
           e   == n.end
       IN  IF val.ovf THEN FALSE
           ELSE IF e <= Len(s) /\ s[e] = "."
           THEN IF parts >= 3 \/ val.hi > 0 \/ val.lo > 255 THEN FALSE
                ELSE AtonFrom(s, e + 1, parts + 1)
           ELSE /\ (e > Len(s) \/ isspace(s[e]))          \* trailing garbage
                /\ CASE parts = 0 -> TRUE                  \* max 0xffffffff
                     [] parts = 1 -> val.hi <= 255         \* max 0xffffff
                     [] parts = 2 -> val.hi = 0            \* max 0xffff
                     [] OTHER     -> val.hi = 0 /\ val.lo <= 255

inet_aton(s) == AtonFrom(s, 1, 0)

----------------------------------------------------------------------------
\* The strings of the model's inputs and provider data

S10    == str(10)                       \* "10"  (the ID of domain e.c)
S20    == str(20)                       \* "20"  (the ID of the A record h)
S22    == str(22)                       \* "22"  (the ID of the CNAME record h)
EC     == <<"e", ".", "c">>             \* "e.c"
FC     == <<"f", ".", "c">>             \* "f.c"
NOPE   == <<"n">>                       \* "n", no domain or record of the account
HOME   == <<"h">>                       \* "h"
TypeA      == <<"A">>
TypeALower == <<"a">>
TypeCNAME  == <<"C", "N", "A", "M", "E">>
IP12   == <<"1", ".", "2">>             \* "1.2", a short form inet_aton accepts
IP12SP == <<"1", ".", "2", " ">>        \* "1.2 ", accepted by inet_aton as well
IP13   == <<"1", ".", "3">>             \* "1.3"
IP00   == <<"0", ".", "0">>             \* "0.0"
IPBAD  == <<"a">>                       \* "a", not an address
KEY    == <<"K">>                       \* the API key

\* Command lines: apiKey domainID resourceID [-ip address]; ip is None without -ip.
DomainInputs   == {S10, EC, NOPE}
ResourceInputs == {S20, HOME, S22}
IpFlags        == {None, IP12, IP12SP, IPBAD}
ArgsSet == [apiKey : {KEY}, domainID : DomainInputs, resourceID : ResourceInputs,
            ip : IpFlags]
\* Command lines of two processes run at the same time: the record "h" of
\* domain 10 addressed by the domain's ID or name, two addresses.
ConcurrentArgsSet == [apiKey : {KEY}, domainID : {S10, EC}, resourceID : {HOME},
                      ip : {IP12, IP13}]

\* Response bodies of the external-IP service: " 1.3\n" and an empty body.
ExternalBodies == {<<" ", "1", ".", "3", "\n">>, <<>>}

\* The account of the orchestration specification: two domains; domain 10 holds
\* a CNAME record and an A record of the same name, domain 11 an A record
\* whose type is spelled in lower case.
DomainsOf == <<[DOMAINID |-> 10, DOMAINNAME |-> EC], [DOMAINID |-> 11, DOMAINNAME |-> FC]>>
ResourcesOf(t0) ==
  << [DOMAINID |-> 10, RESOURCEID |-> 22, TYPE |-> TypeCNAME,  NAME |-> HOME, TARGET |-> EC],
     [DOMAINID |-> 10, RESOURCEID |-> 20, TYPE |-> TypeA,      NAME |-> HOME, TARGET |-> t0],
     [DOMAINID |-> 11, RESOURCEID |-> 21, TYPE |-> TypeALower, NAME |-> HOME, TARGET |-> t0] >>
InitialTargets == {IP12, IP00}

\* The accounts of the resolution specification: every list up to MaxLen.
DomainRecords   == [DOMAINID : {10, 11}, DOMAINNAME : {S10, EC}]
ResourceRecords == [DOMAINID : {10}, RESOURCEID : {20, 21},
                    TYPE : {TypeA, TypeALower, TypeCNAME}, NAME : {S20, HOME},
                    TARGET : {IP00}]
BoundedSeq(S, n) == UNION {[1..k -> S] : k \in 0..n}

----------------------------------------------------------------------------
\* The provider API (api.linode.com), as the program relies on it

\* domain.list: DATA (the response's key DOMAIN is the field DOMAINNAME here,
\* DOMAIN being a reserved word)
domain_list == [i \in 1..Len(domains) |->
                 [DOMAINID |-> domains[i].DOMAINID, DOMAINNAME |-> domains[i].DOMAINNAME]]

OfDomain(r, DomainID) == str(r.DOMAINID) = DomainID
\* domain.resource.list: DATA for the DomainID parameter
domain_resource_list(DomainID) ==
  SelectSeq(resources, LAMBDA r : OfDomain(r, DomainID))

\* domain.resource.update: the records after the update
domain_resource_update(DomainID, ResourceID, target) ==
  [i \in 1..Len(resources) |->
     IF OfDomain(resources[i], DomainID) /\ str(resources[i].RESOURCEID) = ResourceID
     THEN [resources[i] EXCEPT !.TARGET = target] ELSE resources[i]]

\* The provider-side targets of the records an update call addresses.
ProviderTargets(DomainID, ResourceID) ==
  {resources[i].TARGET : i \in {j \in 1..Len(resources) :
      OfDomain(resources[j], DomainID) /\ str(resources[j].RESOURCEID) = ResourceID}}

\* How _linodeAPICall() can end: it returns the response, or _handleError()
\* is called for a failed connection, an unparsable body or a non-empty ERRORARRAY.
ApiOutcomes == {"ok", "TransportError", "ParseError", "APIError"}

\* A response of the API as _linodeAPICall() sees it: how the call ended and,
\* for a parsed response, its ERRORARRAY (non-empty exactly for "APIError").
ErrorBad  == [ERRORMESSAGE |-> <<"b", "a", "d">>, ERRORCODE |-> 4]
ErrorNope == [ERRORMESSAGE |-> <<"n", "o", "p", "e">>, ERRORCODE |-> 13]
ErrorEntries == {ErrorBad, ErrorNope}
\* The provider reports one error at a time / up to MaxErrors errors in one answer.
OneError   == {<<ErrorBad>>}
ManyErrors == BoundedSeq(ErrorEntries, MaxErrors) \ {<<>>}
ApiResponses ==
  {[outcome |-> o, ERRORARRAY |-> <<>>] : o \in ApiOutcomes \ {"APIError"}}
  \cup {[outcome |-> "APIError", ERRORARRAY |-> e] : e \in errorLists}

----------------------------------------------------------------------------
\* The messages handed to _handleError()

\* 'The supplied IP address "' + ip + '" is invalid.'
MsgInvalidIP(addr) ==
  <<"T", "h", "e", " ", "s", "u", "p", "p", "l", "i", "e", "d", " ", "I",
      "P", " ", "a", "d", "d", "r", "e", "s", "s", " ", "\"">>
  \o addr \o
  <<"\"", " ", "i", "s", " ", "i", "n", "v", "a", "l", "i", "d", ".">>

\* 'Could not determine your external IP address.'
MsgExternalIP ==
  <<"C", "o", "u", "l", "d", " ", "n", "o", "t", " ", "d", "e", "t", "e",
      "r", "m", "i", "n", "e", " ", "y", "o", "u", "r", " ", "e", "x", "t",
      "e", "r", "n", "a", "l", " ", "I", "P", " ", "a", "d", "d", "r", "e",
      "s", "s", ".">>

\* 'An error occurred while connecting to the Linode API.'
MsgConnect ==
  <<"A", "n", " ", "e", "r", "r", "o", "r", " ", "o", "c", "c", "u", "r",
      "r", "e", "d", " ", "w", "h", "i", "l", "e", " ", "c", "o", "n", "n",
      "e", "c", "t", "i", "n", "g", " ", "t", "o", " ", "t", "h", "e", " ",
      "L", "i", "n", "o", "d", "e", " ", "A", "P", "I", ".">>

\* 'Couldn\'t parse JSON response from Linode API.'
MsgParse ==
  <<"C", "o", "u", "l", "d", "n", "'", "t", " ", "p", "a", "r", "s", "e",
      " ", "J", "S", "O", "N", " ", "r", "e", "s", "p", "o", "n", "s", "e",
      " ", "f", "r", "o", "m", " ", "L", "i", "n", "o", "d", "e", " ", "A",
      "P", "I", ".">>

\* '\n\t' + error['ERRORMESSAGE'] + ' (Error Code: ' + str(error['ERRORCODE']) + ')'
ErrorLine(e) ==
  <<"\n", "\t">> \o e.ERRORMESSAGE \o
  <<" ", "(", "E", "r", "r", "o", "r", " ", "C", "o", "d", "e", ":", " ">>
  \o str(e.ERRORCODE) \o <<")">>

\* Variant: only the first entry of ERRORARRAY is reported.
ErrorLinesFirstOnly(api_errors) ==
  IF api_errors = <<>> THEN <<>> ELSE ErrorLine(Head(api_errors))

\* for error in api_errors: errorMessage += ...
RECURSIVE ErrorLines(_)
ErrorLines(api_errors) ==
  IF api_errors = <<>> THEN <<>>
  ELSE ErrorLine(Head(api_errors)) \o ErrorLines(Tail(api_errors))

\* 'The Linode API call failed with the following error(s).' and the lines
MsgApiErrors(api_errors) ==
  <<"T", "h", "e", " ", "L", "i", "n", "o", "d", "e", " ", "A", "P", "I",
      " ", "c", "a", "l", "l", " ", "f", "a", "i", "l", "e", "d", " ", "w",
      "i", "t", "h", " ", "t", "h", "e", " ", "f", "o", "l", "l", "o", "w",
      "i", "n", "g", " ", "e", "r", "r", "o", "r", "(", "s", ")", ".">>
  \o ErrorLines(api_errors)

\* 'The supplied Domain ID/domain name "' + candidate + '" is invalid or is not
\* associated with the supplied Linode API key.'
MsgUnknownDomain(candidate) ==
  <<"T", "h", "e", " ", "s", "u", "p", "p", "l", "i", "e", "d", " ", "D",
      "o", "m", "a", "i", "n", " ", "I", "D", "/", "d", "o", "m", "a", "i",
      "n", " ", "n", "a", "m", "e", " ", "\"">>
  \o candidate \o
  <<"\"", " ", "i", "s", " ", "i", "n", "v", "a", "l", "i", "d", " ", "o",
      "r", " ", "i", "s", " ", "n", "o", "t", " ", "a", "s", "s", "o", "c",
      "i", "a", "t", "e", "d", " ", "w", "i", "t", "h", " ", "t", "h", "e",
      " ", "s", "u", "p", "p", "l", "i", "e", "d", " ", "L", "i", "n", "o",
      "d", "e", " ", "A", "P", "I", " ", "k", "e", "y", ".">>

\* 'The supplied Resource ID/name "' + candidate + '" is invalid or is not
\* associated with Domain ID "' + domainID + '".'
MsgUnknownResource(candidate, domainID) ==
  <<"T", "h", "e", " ", "s", "u", "p", "p", "l", "i", "e", "d", " ", "R",
      "e", "s", "o", "u", "r", "c", "e", " ", "I", "D", "/", "n", "a", "m",
      "e", " ", "\"">>
  \o candidate \o
  <<"\"", " ", "i", "s", " ", "i", "n", "v", "a", "l", "i", "d", " ", "o",
      "r", " ", "i", "s", " ", "n", "o", "t", " ", "a", "s", "s", "o", "c",
      "i", "a", "t", "e", "d", " ", "w", "i", "t", "h", " ", "D", "o", "m",
      "a", "i", "n", " ", "I", "D", " ", "\"">>
  \o domainID \o <<"\"", ".">>

\* The message of the _handleError() call that ends a failed _linodeAPICall().
ApiFailureMessage(response) ==
  CASE response.outcome = "TransportError" -> MsgConnect
    [] response.outcome = "ParseError"     -> MsgParse
    [] OTHER                               -> MsgApiErrors(response.ERRORARRAY)

----------------------------------------------------------------------------
\* The program's pure parts

\* _validateIP: TRUE iff it returns (does not call _handleError)
validateIP(s) == inet_aton(s)

\* Variant: the scan keeps going after a match, so the last match wins.
RECURSIVE normalizeDomainIDLastMatch(_, _)
normalizeDomainIDLastMatch(DATA, candidate) ==
  IF DATA = <<>> THEN None
  ELSE LET domain   == DATA[Len(DATA)]
           domainID == str(domain.DOMAINID)
       IN  IF domainID = candidate \/ domain.DOMAINNAME = candidate
           THEN domainID
           ELSE normalizeDomainIDLastMatch(SubSeq(DATA, 1, Len(DATA) - 1), candidate)

\* Variant: a candidate no entry matches is returned unmodified.
RECURSIVE normalizeDomainIDUnchecked(_, _)
normalizeDomainIDUnchecked(DATA, candidate) ==
  IF DATA = <<>> THEN candidate
  ELSE LET domain   == Head(DATA)
           domainID == str(domain.DOMAINID)
       IN  IF domainID = candidate \/ domain.DOMAINNAME = candidate
           THEN domainID
           ELSE normalizeDomainIDUnchecked(Tail(DATA), candidate)

\* The scan of _normalizeDomainID over DATA: the Domain ID returned, None when
\* the loop ends without a match.
RECURSIVE normalizeDomainID(_, _)
normalizeDomainID(DATA, candidate) ==
  IF DATA = <<>> THEN None
  ELSE LET domain   == Head(DATA)
           domainID == str(domain.DOMAINID)
       IN  IF domainID = candidate \/ domain.DOMAINNAME = candidate
           THEN domainID
           ELSE normalizeDomainID(Tail(DATA), candidate)

\* Variant: the record type is not looked at.
RECURSIVE normalizeResourceIDAnyType(_, _)
normalizeResourceIDAnyType(DATA, candidate) ==
  IF DATA = <<>> THEN None
  ELSE LET resource   == Head(DATA)
           resourceID == str(resource.RESOURCEID)
       IN  IF resourceID = candidate \/ resource.NAME = candidate
           THEN resourceID
           ELSE normalizeResourceIDAnyType(Tail(DATA), candidate)

\* The scan of _normalizeResourceID over DATA.
RECURSIVE normalizeResourceID(_, _)
normalizeResourceID(DATA, candidate) ==
  IF DATA = <<>> THEN None
  ELSE LET resource     == Head(DATA)
           resourceType == lower(resource.TYPE)
           resourceID   == str(resource.RESOURCEID)
       IN  IF resourceType = <<"a">>
              /\ (resourceID = candidate \/ resource.NAME = candidate)
           THEN resourceID
           ELSE normalizeResourceID(Tail(DATA), candidate)

\* The apiParams dicts the three callers build.
DomainListParams == [api_action |-> "domain.list"]
ResourceListParams(domainID) ==
  [api_action |-> "domain.resource.list", DomainID |-> domainID]

\* Variant: the two identifiers of the update call exchanged.
UpdateParamsSwapped(domainID, resourceID, target) ==
  [api_action |-> "domain.resource.update", DomainID |-> resourceID,
   ResourceID |-> domainID, target |-> target]

UpdateParams(domainID, resourceID, target) ==
  [api_action |-> "domain.resource.update", DomainID |-> domainID,
   ResourceID |-> resourceID, target |-> target]

\* _linodeAPICall: apiParams['api_key'] = _LINODE_API_KEY
WithApiKey(apiParams, key) == apiParams @@ [api_key |-> key]

\* Variant: the key built domain first.
CacheKeyDomainFirst(resourceInput, domainInput) ==
  domainInput \o <<".">> \o resourceInput

\* cacheKeyName = userResourceId + '.' + userDomainId
CacheKey(resourceInput, domainInput) == resourceInput \o <<".">> \o domainInput

\* cache.read(): ConfigParser strips the whitespace around each value it reads;
\* a missing file leaves the parser empty.
EmptyCache == [k \in {} |-> <<>>]
ReadCache(file) == [k \in DOMAIN file |-> strip(file[k])]

\* Variant: the comparison with the stored IP inverted.
CacheHitInverted(c, key, addr) == key \in DOMAIN c /\ c[key] # addr

\* Variant: a stored entry under the key is taken as current whatever its IP.
CacheHitKeyOnly(c, key, addr) == key \in DOMAIN c

\* cacheKeyName in cache and 'ip' in cache[cacheKeyName] and cache[cacheKeyName]['ip'] == ip
CacheHit(c, key, addr) == key \in DOMAIN c /\ c[key] = addr

\* Variant: the cache is replaced by the one new entry.
SetIpAlone(c, key, addr) == [k \in {key} |-> addr]

\* cache[cacheKeyName] = {}; cache[cacheKeyName]['ip'] = ip
SetIp(c, key, addr) == [k \in DOMAIN c \cup {key} |-> IF k = key THEN addr ELSE c[k]]

\* cache.write(output_file): every section with its value as held
WriteCache(c) == c

\* sys.exit(-1) as the process status the caller sees
FailureStatus == (-1) % 256

----------------------------------------------------------------------------
\* The state machine

\* Everything one process of the program holds: its locals and its history.
ProcessState ==
  [pc |-> pc, args |-> args, LINODE_API_KEY |-> LINODE_API_KEY,
   userDomainId |-> userDomainId, userResourceId |-> userResourceId,
   ip |-> ip, cache |-> cache, cacheKeyName |-> cacheKeyName,
   domainId |-> domainId, resourceId |-> resourceId,
   exitStatus |-> exitStatus, error |-> error, report |-> report,
   calls |-> calls, lookups |-> lookups, writes |-> writes,
   cacheAtStart |-> cacheAtStart, targetBefore |-> targetBefore,
   prev |-> prev, budget |-> budget]

\* A process that has not been started and may be started n times.
IdleProcess(n) ==
  [pc |-> "IDLE", args |-> None, LINODE_API_KEY |-> <<>>,
   userDomainId |-> None, userResourceId |-> None, ip |-> None,
   cache |-> EmptyCache, cacheKeyName |-> None, domainId |-> None,
   resourceId |-> None, exitStatus |-> <<>>, error |-> "none",
   report |-> None, calls |-> <<>>, lookups |-> 0, writes |-> 0,
   cacheAtStart |-> EmptyCache, targetBefore |-> {}, prev |-> <<>>,
   budget |-> n]

\* A second process of the program exists (started or still to be started).
Concurrent == ~(other.pc = "IDLE" /\ other.budget = 0)

\* No process yet: nothing parsed, nothing called.
InitProcess ==
  /\ pc = "IDLE"
  /\ args = None
  /\ LINODE_API_KEY = <<>>
  /\ userDomainId = None
  /\ userResourceId = None
  /\ ip = None
  /\ cache = EmptyCache
  /\ cacheKeyName = None
  /\ domainId = None
  /\ resourceId = None
  /\ exitStatus = <<>>
  /\ error = "none"
  /\ report = None
  /\ pushed = {}
  /\ calls = <<>>
  /\ lookups = 0
  /\ writes = 0
  /\ targetBefore = {}
  /\ prev = <<>>

\* Orchestration: the account of DomainsOf/ResourcesOf, no cache file yet, and
\* up to MaxRuns runs one after the other.
Init ==
  /\ domains = DomainsOf
  /\ \E t0 \in InitialTargets : resources = ResourcesOf(t0)
  /\ cacheFile = EmptyCache
  /\ cacheAtStart = EmptyCache
  /\ budget = MaxRuns
  /\ errorLists = OneError
  /\ other = IdleProcess(0)
  /\ InitProcess

\* Error answers: the same account, one run, and a provider that answers with
\* every error list of up to MaxErrors entries.
InitErrors ==
  /\ domains = DomainsOf
  /\ \E t0 \in InitialTargets : resources = ResourcesOf(t0)
  /\ cacheFile = EmptyCache
  /\ cacheAtStart = EmptyCache
  /\ budget = 1
  /\ errorLists = ManyErrors
  /\ other = IdleProcess(0)
  /\ InitProcess

\* Resolution: one run against every domain list (with one A record), and
\* against every resource list of domain 10.
InitResolve ==
  /\ \E dl \in BoundedSeq(DomainRecords, MaxLen), rl \in BoundedSeq(ResourceRecords, MaxLen) :
       /\ \/ rl = <<[DOMAINID |-> 10, RESOURCEID |-> 20, TYPE |-> TypeA,
                     NAME |-> HOME, TARGET |-> IP00]>>
          \/ dl = <<[DOMAINID |-> 10, DOMAINNAME |-> EC]>>
       /\ domains = dl
       /\ resources = rl
  /\ cacheFile = EmptyCache
  /\ cacheAtStart = EmptyCache
  /\ budget = 1
  /\ errorLists = OneError
  /\ other = IdleProcess(0)
  /\ InitProcess

\* Two processes: the same account, no cache file yet, and two processes of
\* the program, each run once, their steps interleaved in every way.
InitConcurrent ==
  /\ domains = DomainsOf
  /\ \E t0 \in InitialTargets : resources = ResourcesOf(t0)
  /\ cacheFile = EmptyCache
  /\ cacheAtStart = EmptyCache
  /\ budget = 1
  /\ errorLists = OneError
  /\ other = IdleProcess(1)
  /\ InitProcess

\* Variant: the error path ends the process with sys.exit(), status zero.
HandleErrorStatusZero(kind) ==
  /\ pc' = "EXITED"
  /\ exitStatus' = <<0>>
  /\ error' = kind

\* Variant: _handleError() returns to its caller instead of ending the process.
HandleErrorReturns(kind) ==
  /\ pc' = pc
  /\ exitStatus' = exitStatus
  /\ error' = kind

\* _handleError(): print and sys.exit(-1)
HandleError(kind) ==
  /\ pc' = "EXITED"
  /\ exitStatus' = <<FailureStatus>>
  /\ error' = kind

\* sys.exit()
ExitSuccess ==
  /\ pc' = "EXITED"
  /\ exitStatus' = <<0>>
  /\ error' = error
  /\ report' = report

\* _handleError(message): the message is printed, the process ends.
Fail(kind, message) ==
  /\ HandleError(kind)
  /\ report' = message

\* The program is started: parser.parse_args(), the un-normalized copies of the
\* identifiers, the global API key.
Invoke ==
  /\ pc \in {"IDLE", "EXITED"}
  /\ budget > 0
  /\ \E a \in (IF Concurrent THEN ConcurrentArgsSet ELSE ArgsSet) :
       /\ args' = a
       /\ userDomainId' = a.domainID
       /\ userResourceId' = a.resourceID
       /\ LINODE_API_KEY' = a.apiKey
  /\ pc' = "DETERMINE_IP"
  /\ ip' = None
  /\ cache' = EmptyCache
  /\ cacheKeyName' = None
  /\ domainId' = None
  /\ resourceId' = None
  /\ exitStatus' = <<>>
  /\ error' = "none"
  /\ report' = None
  /\ calls' = <<>>
  /\ lookups' = 0
  /\ writes' = 0
  /\ targetBefore' = {}
  /\ cacheAtStart' = cacheFile
  /\ prev' = IF pc = "EXITED"
             THEN <<[domainID |-> userDomainId, resourceID |-> userResourceId,
                     ip |-> ip, status |-> exitStatus]>>
             ELSE <<>>
  /\ budget' = budget - 1
  /\ UNCHANGED <<env, pushed, errorLists, other>>

\* Variant: an IP supplied with -ip is validated as soon as it is taken.
DetermineIPValidating ==
  /\ pc = "DETERMINE_IP"
  /\ IF args.ip # None
     THEN /\ ip' = args.ip
          /\ lookups' = lookups
          /\ IF validateIP(ip')
             THEN pc' = "CHECK_CACHE" /\ UNCHANGED <<exitStatus, error, report>>
             ELSE Fail("InvalidIPFormat", MsgInvalidIP(ip'))
     ELSE /\ lookups' = lookups + 1
          /\ \/ /\ ip' = <<>>
                /\ Fail("ExternalIPLookupFailure", MsgExternalIP)
             \/ \E body \in ExternalBodies :
                  /\ ip' = strip(body)
                  /\ IF validateIP(ip')
                     THEN pc' = "CHECK_CACHE" /\ UNCHANGED <<exitStatus, error, report>>
                     ELSE Fail("InvalidIPFormat", MsgInvalidIP(ip'))
  /\ UNCHANGED <<env, args, LINODE_API_KEY, userDomainId, userResourceId, cache,
                 cacheKeyName, domainId, resourceId, calls, writes, cacheAtStart,
                 targetBefore, prev, budget, pushed, errorLists, other>>

\* ip = args.ip, or _getExternalIP(): the service's body, stripped and validated.
DetermineIP ==
  /\ pc = "DETERMINE_IP"
  /\ IF args.ip # None
     THEN /\ ip' = args.ip
          /\ pc' = "CHECK_CACHE"
          /\ UNCHANGED <<lookups, exitStatus, error, report>>
     ELSE /\ lookups' = lookups + 1
          /\ \/ /\ ip' = <<>>
                /\ Fail("ExternalIPLookupFailure", MsgExternalIP)
             \/ \E body \in ExternalBodies :
                  /\ ip' = strip(body)
                  /\ IF validateIP(ip')
                     THEN pc' = "CHECK_CACHE" /\ UNCHANGED <<exitStatus, error, report>>
                     ELSE Fail("InvalidIPFormat", MsgInvalidIP(ip'))
  /\ UNCHANGED <<env, args, LINODE_API_KEY, userDomainId, userResourceId, cache,
                 cacheKeyName, domainId, resourceId, calls, writes, cacheAtStart,
                 targetBefore, prev, budget, pushed, errorLists, other>>

\* Read the cache file, build the key, and stop if the IP is already current.
CheckCache ==
  /\ pc = "CHECK_CACHE"
  /\ cache' = ReadCache(cacheFile)
  /\ cacheKeyName' = CacheKey(userResourceId, userDomainId)
  /\ IF CacheHit(cache', cacheKeyName', ip)
     THEN ExitSuccess
     ELSE pc' = "RESOLVE_DOMAIN" /\ UNCHANGED <<exitStatus, error, report>>
  /\ cacheAtStart' = cacheFile
  /\ UNCHANGED <<env, args, LINODE_API_KEY, userDomainId, userResourceId, ip,
                 domainId, resourceId, calls, lookups, writes, targetBefore,
                 prev, budget, pushed, errorLists, other>>

\* domainId = _normalizeDomainID(userDomainId)
ResolveDomain ==
  /\ pc = "RESOLVE_DOMAIN"
  /\ \E response \in ApiResponses :
       LET apiParams == WithApiKey(DomainListParams, LINODE_API_KEY)
           found     == normalizeDomainID(domain_list, userDomainId)
       IN  /\ calls' = Append(calls, [params |-> apiParams, outcome |-> response.outcome,
                                ERRORARRAY |-> response.ERRORARRAY])
           /\ IF response.outcome # "ok"
              THEN Fail(response.outcome, ApiFailureMessage(response)) /\ domainId' = domainId
              ELSE IF found = None
              THEN Fail("UnknownDomain", MsgUnknownDomain(userDomainId)) /\ domainId' = domainId
              ELSE /\ domainId' = found
                   /\ pc' = "RESOLVE_RESOURCE"
                   /\ UNCHANGED <<exitStatus, error, report>>
  /\ UNCHANGED <<env, args, LINODE_API_KEY, userDomainId, userResourceId, ip, cache,
                 cacheKeyName, resourceId, lookups, writes, cacheAtStart,
                 targetBefore, prev, budget, pushed, errorLists, other>>

\* resourceId = _normalizeResourceID(domainId, userResourceId)
ResolveResource ==
  /\ pc = "RESOLVE_RESOURCE"
  /\ \E response \in ApiResponses :
       LET apiParams == WithApiKey(ResourceListParams(domainId), LINODE_API_KEY)
           found     == normalizeResourceID(domain_resource_list(domainId), userResourceId)
       IN  /\ calls' = Append(calls, [params |-> apiParams, outcome |-> response.outcome,
                                ERRORARRAY |-> response.ERRORARRAY])
           /\ IF response.outcome # "ok"
              THEN Fail(response.outcome, ApiFailureMessage(response)) /\ resourceId' = resourceId
              ELSE IF found = None
              THEN Fail("UnknownResource", MsgUnknownResource(userResourceId, domainId)) /\ resourceId' = resourceId
              ELSE /\ resourceId' = found
                   /\ pc' = "UPDATE"
                   /\ UNCHANGED <<exitStatus, error, report>>
  /\ UNCHANGED <<env, args, LINODE_API_KEY, userDomainId, userResourceId, ip, cache,
                 cacheKeyName, domainId, lookups, writes, cacheAtStart,
                 targetBefore, prev, budget, pushed, errorLists, other>>

\* Variant: the outcome of the update call is not looked at.
UpdateIgnoringErrors ==
  /\ pc = "UPDATE"
  /\ IF ~validateIP(ip)
     THEN /\ Fail("InvalidIPFormat", MsgInvalidIP(ip))
          /\ UNCHANGED <<calls, resources, targetBefore, pushed>>
     ELSE \E response \in ApiResponses, applied \in BOOLEAN :
            LET apiParams == WithApiKey(UpdateParams(domainId, resourceId, ip),
                                           LINODE_API_KEY)
            IN  /\ response.outcome = "ok" => applied
                /\ response.outcome = "APIError" => ~applied
                /\ calls' = Append(calls, [params |-> apiParams, outcome |-> response.outcome,
                                ERRORARRAY |-> response.ERRORARRAY])
                /\ targetBefore' = ProviderTargets(domainId, resourceId)
                /\ pushed' = IF response.outcome = "ok" THEN pushed \cup {ip} ELSE pushed
                /\ resources' = IF applied
                                THEN domain_resource_update(domainId, resourceId, ip)
                                ELSE resources
                /\ pc' = "PERSIST"
                /\ UNCHANGED <<exitStatus, error, report>>
  /\ UNCHANGED <<domains, cacheFile, args, LINODE_API_KEY, userDomainId,
                 userResourceId, ip, cache, cacheKeyName, domainId, resourceId,
                 lookups, writes, cacheAtStart, prev, budget, errorLists, other>>

\* Variant: the update call is made first and the target validated afterwards.
UpdateCallThenValidate ==
  /\ pc = "UPDATE"
  /\ \E response \in ApiResponses, applied \in BOOLEAN :
       LET apiParams == WithApiKey(UpdateParams(domainId, resourceId, ip),
                                      LINODE_API_KEY)
       IN  /\ response.outcome = "ok" => applied
           /\ response.outcome = "APIError" => ~applied
           /\ calls' = Append(calls, [params |-> apiParams, outcome |-> response.outcome,
                                ERRORARRAY |-> response.ERRORARRAY])
           /\ targetBefore' = ProviderTargets(domainId, resourceId)
           /\ pushed' = IF response.outcome = "ok" THEN pushed \cup {ip} ELSE pushed
           /\ resources' = IF applied
                           THEN domain_resource_update(domainId, resourceId, ip)
                           ELSE resources
           /\ IF response.outcome # "ok"
              THEN Fail(response.outcome, ApiFailureMessage(response))
              ELSE IF ~validateIP(ip)
              THEN Fail("InvalidIPFormat", MsgInvalidIP(ip))
              ELSE pc' = "PERSIST" /\ UNCHANGED <<exitStatus, error, report>>
  /\ UNCHANGED <<domains, cacheFile, args, LINODE_API_KEY, userDomainId,
                 userResourceId, ip, cache, cacheKeyName, domainId, resourceId,
                 lookups, writes, cacheAtStart, prev, budget, errorLists, other>>

\* _updateDynDNS(domainId, resourceId, ip): validate the target, then call
\* domain.resource.update.  A call that ends in a transport or parse error may
\* or may not have reached the provider; one answered with errors changed nothing.
Update ==
  /\ pc = "UPDATE"
  /\ IF ~validateIP(ip)
     THEN /\ Fail("InvalidIPFormat", MsgInvalidIP(ip))
          /\ UNCHANGED <<calls, resources, targetBefore, pushed>>
     ELSE \E response \in ApiResponses, applied \in BOOLEAN :
            LET apiParams == WithApiKey(UpdateParams(domainId, resourceId, ip),
                                           LINODE_API_KEY)
            IN  /\ response.outcome = "ok" => applied
                /\ response.outcome = "APIError" => ~applied
                /\ calls' = Append(calls, [params |-> apiParams, outcome |-> response.outcome,
                                ERRORARRAY |-> response.ERRORARRAY])
                /\ targetBefore' = ProviderTargets(domainId, resourceId)
                /\ pushed' = IF response.outcome = "ok" THEN pushed \cup {ip} ELSE pushed
                /\ resources' = IF applied
                                THEN domain_resource_update(domainId, resourceId, ip)
                                ELSE resources
                /\ IF response.outcome = "ok"
                   THEN pc' = "PERSIST" /\ UNCHANGED <<exitStatus, error, report>>
                   ELSE Fail(response.outcome, ApiFailureMessage(response))
  /\ UNCHANGED <<domains, cacheFile, args, LINODE_API_KEY, userDomainId,
                 userResourceId, ip, cache, cacheKeyName, domainId, resourceId,
                 lookups, writes, cacheAtStart, prev, budget, errorLists, other>>

\* Variant: the run reports success without writing the cache file.
PersistWithoutWrite ==
  /\ pc = "PERSIST"
  /\ cache' = SetIp(cache, cacheKeyName, ip)
  /\ ExitSuccess
  /\ UNCHANGED <<env, args, LINODE_API_KEY, userDomainId, userResourceId, ip,
                 cacheKeyName, domainId, resourceId, hist, pushed, errorLists, other>>

\* Variant: the cache file is read again just before it is written, so the
\* entries other processes wrote in the meantime are kept.
PersistRereading ==
  /\ pc = "PERSIST"
  /\ cache' = SetIp(ReadCache(cacheFile), cacheKeyName, ip)
  /\ cacheFile' = WriteCache(cache')
  /\ writes' = writes + 1
  /\ ExitSuccess
  /\ UNCHANGED <<domains, resources, args, LINODE_API_KEY, userDomainId,
                 userResourceId, ip, cacheKeyName, domainId, resourceId, calls,
                 lookups, cacheAtStart, targetBefore, prev, budget, pushed, errorLists, other>>

\* Set the entry, write the cache file, report and exit.
Persist ==
  /\ pc = "PERSIST"
  /\ cache' = SetIp(cache, cacheKeyName, ip)
  /\ cacheFile' = WriteCache(cache')
  /\ writes' = writes + 1
  /\ ExitSuccess
  /\ UNCHANGED <<domains, resources, args, LINODE_API_KEY, userDomainId,
                 userResourceId, ip, cacheKeyName, domainId, resourceId, calls,
                 lookups, cacheAtStart, targetBefore, prev, budget, pushed, errorLists, other>>

\* The program takes no lock on the cache file, so a second process of it can
\* run between any two steps of the first: the stepping process is set aside
\* and the other one steps from where it stood.
Yield ==
  /\ other.pc \notin {"IDLE", "EXITED"} \/ other.budget > 0
  /\ other' = ProcessState
  /\ pc' = other.pc
  /\ args' = other.args
  /\ LINODE_API_KEY' = other.LINODE_API_KEY
  /\ userDomainId' = other.userDomainId
  /\ userResourceId' = other.userResourceId
  /\ ip' = other.ip
  /\ cache' = other.cache
  /\ cacheKeyName' = other.cacheKeyName
  /\ domainId' = other.domainId
  /\ resourceId' = other.resourceId
  /\ exitStatus' = other.exitStatus
  /\ error' = other.error
  /\ report' = other.report
  /\ calls' = other.calls
  /\ lookups' = other.lookups
  /\ writes' = other.writes
  /\ cacheAtStart' = other.cacheAtStart
  /\ targetBefore' = other.targetBefore
  /\ prev' = other.prev
  /\ budget' = other.budget
  /\ UNCHANGED <<env, pushed, errorLists>>

Next ==
  \/ Invoke
  \/ DetermineIP
  \/ CheckCache
  \/ ResolveDomain
  \/ ResolveResource
  \/ Update
  \/ Persist

Spec == Init /\ [][Next]_vars

SpecResolve == InitResolve /\ [][Next]_vars

SpecErrors == InitErrors /\ [][Next]_vars

NextConcurrent ==
  \/ Next
  \/ Yield

SpecConcurrent == InitConcurrent /\ [][NextConcurrent]_vars

----------------------------------------------------------------------------
\* Vocabulary of the properties

Finished  == pc = "EXITED"
Succeeded == Finished /\ exitStatus = <<0>>
Failed    == Finished /\ exitStatus # <<0>>

CallActions == [i \in 1..Len(calls) |-> calls[i].params.api_action]
AllCallsOk  == \A i \in 1..Len(calls) : calls[i].outcome = "ok"
UpdateCalled ==
  \E i \in 1..Len(calls) : calls[i].params.api_action = "domain.resource.update"
UpdateReturnedOk ==
  /\ calls # <<>>
  /\ calls[Len(calls)].params.api_action = "domain.resource.update"
  /\ calls[Len(calls)].outcome = "ok"

\* resourceInput + "." + domainInput of the command line
RunKey == args.resourceID \o <<".">> \o args.domainID

\* The cache file as it was when the run started shows the desired IP under
\* the run's key to a reader of the file.
ShownCurrent ==
  /\ pc # "IDLE"
  /\ RunKey \in DOMAIN cacheAtStart
  /\ strip(cacheAtStart[RunKey]) = ip

\* The previous run had the same (domainInput, resourceInput, X) and exited
\* successfully.
SameAsPrev ==
  /\ prev # <<>>
  /\ prev[1].status = <<0>>
  /\ prev[1].domainID = userDomainId
  /\ prev[1].resourceID = userResourceId
  /\ prev[1].ip = ip

\* Shape (a): no mutating call, the cache having shown the IP current.
SkipShape == ShownCurrent /\ ~UpdateCalled
\* Shape (b): the three calls, once each and in order, and one cache write.
FullShape ==
  /\ CallActions = <<"domain.list", "domain.resource.list", "domain.resource.update">>
  /\ writes = 1

----------------------------------------------------------------------------
\* C1 (as claimed): a run that repeats the inputs (domainInput, resourceInput, X)
\* of a run that exited successfully issues no provider call, does not write
\* the cache and exits successfully.  Refuted for X = "1.2 ": inet_aton accepts
\* the trailing blank, the cache file stores it, and the next read strips it.
C1_Idempotence ==
  (pc \notin {"IDLE", "DETERMINE_IP"} /\ SameAsPrev) =>
    /\ calls = <<>>
    /\ writes = 0
    /\ cacheFile = cacheAtStart
    /\ pc \in {"CHECK_CACHE", "EXITED"}
    /\ Finished => exitStatus = <<0>>

\* C1, for the desired IPs that carry no surrounding whitespace: the repeated
\* run is a skip.
C1_IdempotenceTrimmed ==
  (pc \notin {"IDLE", "DETERMINE_IP"} /\ SameAsPrev /\ strip(ip) = ip) =>
    /\ calls = <<>>
    /\ writes = 0
    /\ cacheFile = cacheAtStart
    /\ pc \in {"CHECK_CACHE", "EXITED"}
    /\ Finished => exitStatus = <<0>>

\* C2 (as claimed): an update call is issued only for a record whose
\* provider-side target differs from the desired IP.
C2_UpdateOnlyIfTargetDiffers == UpdateCalled => ip \notin targetBefore

\* C2 (amended): an update call is issued only if the cache read at the start of
\* the run does not show the desired IP under the run's key; the provider-side
\* target of the record plays no part.
C2_UpdateOnlyOnCacheMiss == UpdateCalled => ~ShownCurrent

\* C2 witness: an update call for a record whose target already was the desired IP.
C2_Witness == UpdateCalled /\ ip \in targetBefore

\* C3 (as claimed): every finished run has shape (a) or shape (b).
C3_TwoShapes == Finished => (SkipShape \/ FullShape)

\* C3 (amended): a run that exits with status zero has exactly one of the two
\* shapes, (a) with no provider call at all and no cache write, (b) with every
\* call answered without error; a run that ends in a fatal error has neither
\* shape: it made at most three provider calls and no cache write.
C3_SuccessShapes ==
  /\ Succeeded =>
       /\ SkipShape \/ FullShape
       /\ ~(SkipShape /\ FullShape)
       /\ SkipShape => calls = <<>> /\ writes = 0
       /\ FullShape => AllCallsOk
  /\ Failed =>
       /\ ~SkipShape
       /\ ~FullShape
       /\ Len(calls) <= 3
       /\ writes = 0

\* C3 witness: a second run that went through both resolutions, the update and
\* the cache write.
C3_Witness == Succeeded /\ FullShape /\ cacheAtStart # EmptyCache

\* C4: the cache file is written at most once per run and only after the update
\* call of that run returned without error; a run that fails or skips leaves
\* the file as it was at the start of the run.
C4_CacheWrittenOnlyAfterUpdate ==
  /\ writes <= 1
  /\ writes = 1 => UpdateReturnedOk /\ Finished
  /\ writes = 0 => cacheFile = cacheAtStart
  /\ Failed => writes = 0 /\ cacheFile = cacheAtStart
  /\ (Succeeded /\ calls = <<>>) => writes = 0 /\ cacheFile = cacheAtStart

\* C4 witness: a run whose update call was answered with errors leaves a
\* non-empty cache file untouched.
C4_Witness ==
  /\ Failed
  /\ error = "APIError"
  /\ UpdateCalled
  /\ cacheAtStart # EmptyCache
  /\ cacheFile = cacheAtStart

\* C5, the exit state: a finished run has status 0 or 255; the status is 0 exactly
\* when no handled error occurred, which is exactly when the run skipped or
\* completed update and persist; every handled error ends the run with a
\* nonzero status.
C5_ExitState ==
  /\ exitStatus \in {<<>>, <<0>>, <<255>>}
  /\ Finished <=> exitStatus # <<>>
  /\ error # "none" => Failed
  /\ Failed => error # "none"
  /\ Succeeded <=>
       /\ Finished
       /\ \/ calls = <<>> /\ writes = 0 /\ ShownCurrent
          \/ FullShape /\ AllCallsOk

\* C5, no step after the exit: once a run has exited, the only step is the start
\* of another process; the exited run makes no API call and no cache write.
C5_NoStepAfterExit ==
  [][Finished => (pc' = "DETERMINE_IP" /\ calls' = <<>> /\ writes' = 0
                  /\ UNCHANGED env)]_vars

\* C5: every run ends in exactly one of success (status 0) and failure (nonzero
\* status), as decided by the handled errors, and a fatal error is final.
C5_ExitStatus == []C5_ExitState /\ C5_NoStepAfterExit

\* C5 witness: a run ended by a transport error, with status 255.
C5_Witness == Finished /\ error = "TransportError" /\ exitStatus = <<255>>

----------------------------------------------------------------------------
\* Vocabulary of the resolution properties

DomainListed   == Len(calls) >= 1 /\ calls[1].outcome = "ok"
ResourceListed == Len(calls) >= 2 /\ calls[2].outcome = "ok"

FirstOf(S) == CHOOSE i \in S : \A j \in S : i <= j

\* An entry of the domain list matches: its stringified ID or its name equals
\* the candidate.
MatchesDomain(d, candidate) == str(d.DOMAINID) = candidate \/ d.DOMAINNAME = candidate
DomainMatches == {i \in 1..Len(domains) : MatchesDomain(domains[i], userDomainId)}
ExpectedDomainId == str(domains[FirstOf(DomainMatches)].DOMAINID)

\* The records the provider lists for a Domain ID, in response order.
RecordsOf(id) == SelectSeq(resources, LAMBDA r : str(r.DOMAINID) = id)
IsAddressRecord(r) == r.TYPE \in {<<"A">>, <<"a">>}
NameOrIdMatches(r, candidate) == str(r.RESOURCEID) = candidate \/ r.NAME = candidate
ResourceMatches(id) ==
  {i \in 1..Len(RecordsOf(id)) :
     IsAddressRecord(RecordsOf(id)[i]) /\ NameOrIdMatches(RecordsOf(id)[i], userResourceId)}
ExpectedResourceId(id) == str(RecordsOf(id)[FirstOf(ResourceMatches(id))].RESOURCEID)

\* C6: resolution returns the ID of the first entry, in response order, whose
\* stringified ID or whose name equals the candidate; for resources, the first
\* such entry among the A records of the list.
C6_FirstMatchWins ==
  /\ (DomainListed /\ DomainMatches # {}) => domainId = ExpectedDomainId
  /\ (ResourceListed /\ ResourceMatches(domainId) # {}) =>
       resourceId = ExpectedResourceId(domainId)

\* C6 witness: the name of the second entry is the ID of the first one, and the
\* first one is returned.
C6_Witness ==
  /\ DomainListed
  /\ Len(domains) = 2
  /\ domains[1].DOMAINID # domains[2].DOMAINID
  /\ domains[2].DOMAINNAME = str(domains[1].DOMAINID)
  /\ userDomainId = str(domains[1].DOMAINID)
  /\ domainId = str(domains[1].DOMAINID)

\* C7: resource resolution returns only the ID of a matching A record (type
\* compared without regard to case), whatever non-A records match and wherever
\* they stand in the list; when no A record matches, the run fails with
\* UnknownResource.
C7_TypeFiltering ==
  ResourceListed =>
    IF ResourceMatches(domainId) # {}
    THEN /\ resourceId \in {str(RecordsOf(domainId)[i].RESOURCEID) :
                              i \in ResourceMatches(domainId)}
         /\ error # "UnknownResource"
    ELSE /\ resourceId = None
         /\ error = "UnknownResource"
         /\ Failed

\* C7 witness: a CNAME record and, after it, an A record of the same name; the A
\* record's ID is returned.
C7_Witness ==
  /\ ResourceListed
  /\ Len(RecordsOf(domainId)) = 2
  /\ RecordsOf(domainId)[1].TYPE = <<"C", "N", "A", "M", "E">>
  /\ RecordsOf(domainId)[1].NAME = userResourceId
  /\ IsAddressRecord(RecordsOf(domainId)[2])
  /\ RecordsOf(domainId)[2].NAME = userResourceId
  /\ RecordsOf(domainId)[1].RESOURCEID # RecordsOf(domainId)[2].RESOURCEID
  /\ resourceId = str(RecordsOf(domainId)[2].RESOURCEID)

\* The run missed the cache, its inputs are valid (the IP passes the validator,
\* both identifiers resolve) and no call failed.
ValidMiss ==
  /\ Finished
  /\ ~ShownCurrent
  /\ AllCallsOk
  /\ validateIP(ip)
  /\ DomainMatches # {}
  /\ ResourceMatches(ExpectedDomainId) # {}

\* C8: on a cache miss with valid inputs the run makes the three calls, the
\* update call carrying exactly the resolved Domain ID, the Resource ID resolved
\* within that domain and the desired IP; afterwards the cache maps the run's
\* key to the desired IP and the status is zero.
C8_UpdateCall ==
  ValidMiss =>
    /\ Len(calls) = 3
    /\ calls[1].params = [api_action |-> "domain.list", api_key |-> args.apiKey]
    /\ calls[2].params = [api_action |-> "domain.resource.list",
                          DomainID |-> ExpectedDomainId, api_key |-> args.apiKey]
    /\ calls[3].params = [api_action |-> "domain.resource.update",
                          DomainID |-> ExpectedDomainId,
                          ResourceID |-> ExpectedResourceId(ExpectedDomainId),
                          target |-> ip, api_key |-> args.apiKey]
    /\ RunKey \in DOMAIN cacheFile
    /\ cacheFile[RunKey] = ip
    /\ cache[RunKey] = ip
    /\ exitStatus = <<0>>

\* C8 witness: such a run, given names, with the update applied at the provider.
C8_Witness ==
  /\ ValidMiss
  /\ userDomainId = EC
  /\ userResourceId = HOME
  /\ calls[3].params.DomainID = S10
  /\ calls[3].params.ResourceID = S20
  /\ \E i \in 1..Len(resources) :
       resources[i].RESOURCEID = 20 /\ resources[i].TARGET = ip

\* C9: the key of the cache lookup and of the cache write is resourceInput + "."
\* + domainInput of the command line, never built from the resolved IDs.
C9_CacheKey ==
  /\ cacheKeyName # None => cacheKeyName = RunKey
  /\ (Succeeded /\ writes = 0) => RunKey \in DOMAIN cacheAtStart
  /\ pc \in {"RESOLVE_DOMAIN", "RESOLVE_RESOURCE", "UPDATE", "PERSIST"} => ~ShownCurrent
  /\ writes = 1 =>
       /\ DOMAIN cacheFile = DOMAIN cacheAtStart \cup {RunKey}
       /\ cacheFile[RunKey] = ip

\* C9 witness: a run given names wrote under the names, not under the resolved
\* IDs.
C9_Witness ==
  /\ writes = 1
  /\ userDomainId # domainId
  /\ userResourceId # resourceId
  /\ RunKey \in DOMAIN cacheFile
  /\ (resourceId \o <<".">> \o domainId) \notin DOMAIN cacheFile

\* C10: when no entry of the domain list matches, the run fails with
\* UnknownDomain after the one domain.list call; when the domain resolves but
\* no A record matches, it fails with UnknownResource after the two list
\* calls; in both cases no update call is made and the cache file is unchanged.
C10_UnknownIdentifier ==
  /\ (DomainListed /\ DomainMatches = {}) =>
       /\ Failed
       /\ error = "UnknownDomain"
       /\ CallActions = <<"domain.list">>
       /\ writes = 0
       /\ cacheFile = cacheAtStart
  /\ (ResourceListed /\ ResourceMatches(domainId) = {}) =>
       /\ Failed
       /\ error = "UnknownResource"
       /\ CallActions = <<"domain.list", "domain.resource.list">>
       /\ writes = 0
       /\ cacheFile = cacheAtStart

\* C10 witness: an unknown resource, with a cache file that holds an entry.
C10_Witness ==
  /\ Failed
  /\ error = "UnknownResource"
  /\ Len(calls) = 2
  /\ cacheAtStart # EmptyCache
  /\ cacheFile = cacheAtStart

----------------------------------------------------------------------------
\* Error aggregation

\* sub occurs in s as a contiguous piece.
Contains(s, sub) ==
  \E i \in 0..(Len(s) - Len(sub)) : SubSeq(s, i + 1, i + Len(sub)) = sub

HasErrors(call) == call.ERRORARRAY # <<>>

\* The one report of the run names every entry of the error list.
ReportsAll(api_errors) ==
  /\ report # None
  /\ \A i \in 1..Len(api_errors) :
        /\ Contains(report, api_errors[i].ERRORMESSAGE)
        /\ Contains(report, str(api_errors[i].ERRORCODE))

\* C11 (state part): a provider call answered with a non-empty error list is
\* the last call of its run; the run has failed with a nonzero status and one
\* report that contains the message and the code of every entry; no update
\* call returned to the run and the cache file is as the run found it.
C11_ErrorsEndTheRun ==
  \A i \in 1..Len(calls) :
    HasErrors(calls[i]) =>
      /\ i = Len(calls)
      /\ Failed
      /\ error = "APIError"
      /\ ReportsAll(calls[i].ERRORARRAY)
      /\ ~UpdateReturnedOk
      /\ writes = 0
      /\ cacheFile = cacheAtStart

\* C11 (step part): the step that receives a non-empty error list leaves the
\* provider's records and the cache file as they were.
C11_ErrorsApplyNothing ==
  [][(calls' # calls /\ calls' # <<>> /\ HasErrors(calls'[Len(calls')]))
       => (resources' = resources /\ domains' = domains /\ cacheFile' = cacheFile)]_vars

\* C11: error aggregation - a response with a non-empty error list fails the
\* run with one report holding every entry's message and code, is followed by
\* no provider call, applies no update and leaves the cache unwritten.
C11_ErrorAggregation == []C11_ErrorsEndTheRun /\ C11_ErrorsApplyNothing

\* The update call of a run is answered with two different errors.
C11_Witness ==
  /\ Len(calls) = 3
  /\ Len(calls[3].ERRORARRAY) = 2
  /\ calls[3].ERRORARRAY[1] # calls[3].ERRORARRAY[2]
  /\ Failed
  /\ Contains(report, calls[3].ERRORARRAY[2].ERRORMESSAGE)

----------------------------------------------------------------------------
\* Call ordering

CallOrder == <<"domain.list", "domain.resource.list", "domain.resource.update">>

\* C12: call ordering and bound - the provider calls of a run are a prefix of
\* (domain.list, domain.resource.list, domain.resource.update): at most three
\* calls, each action at most once; domain.resource.list is only issued after
\* domain.list returned without error and resolved the domain, and
\* domain.resource.update only after domain.resource.list returned without
\* error and resolved the resource.
C12_CallOrdering ==
  /\ Len(calls) <= Len(CallOrder)
  /\ \A i \in 1..Len(calls) : CallActions[i] = CallOrder[i]
  /\ \A i \in 1..Len(calls), j \in 1..Len(calls) :
       CallActions[i] = CallActions[j] => i = j
  /\ Len(calls) >= 2 =>
       /\ calls[1].outcome = "ok"
       /\ domainId # None
       /\ calls[2].params.DomainID = domainId
  /\ Len(calls) >= 3 =>
       /\ calls[2].outcome = "ok"
       /\ resourceId # None
       /\ calls[3].params.ResourceID = resourceId

\* A run has issued all three calls.
C12_Witness ==
  /\ CallActions = CallOrder
  /\ Succeeded

----------------------------------------------------------------------------
\* Skip decision

\* The run has read the cache and taken the decision of line 197.
Decided == cacheKeyName # None
\* The skip path: exit with status zero, no provider call, no cache write.
Skipped == Succeeded /\ calls = <<>> /\ writes = 0
\* The three ways to miss.
MissingCache == cacheAtStart = EmptyCache
MissingKey   == cacheAtStart # EmptyCache /\ RunKey \notin DOMAIN cacheAtStart
DifferentIP  == RunKey \in DOMAIN cacheAtStart /\ strip(cacheAtStart[RunKey]) # ip

\* C13: skip decision - with the cache taken as the mapping the run loads from
\* the file, the run takes the skip path if and only if that mapping has the
\* run's key and the IP under it is the desired IP, string for string; a
\* missing cache, a missing key and a different IP all send the run to
\* domain.list, and with valid inputs and no failing call to the full sequence
\* of three calls and one cache write, whatever the cache held.
C13_SkipDecision ==
  Decided =>
    /\ cacheKeyName = RunKey
    /\ Skipped <=> (Finished /\ ShownCurrent)
    /\ ShownCurrent => pc = "EXITED"
    /\ ~ShownCurrent <=> (MissingCache \/ MissingKey \/ DifferentIP)
    /\ ~ShownCurrent =>
         /\ pc = "RESOLVE_DOMAIN" \/ calls # <<>>
         /\ calls # <<>> => CallActions[1] = "domain.list"
         /\ ValidMiss => Succeeded /\ FullShape

\* A run finds another IP under its key and goes through the full sequence.
C13_Witness == Decided /\ DifferentIP /\ Succeeded /\ FullShape

----------------------------------------------------------------------------
\* Validation ordering

\* The run has taken its update step: both identifiers are resolved and the
\* run is no longer waiting at UPDATE.
UpdateStepTaken == resourceId # None /\ pc # "UPDATE"
\* The target is one that socket.inet_aton rejects.
Malformed == ~inet_aton(ip)

\* C14 (state part): after the update step of a run whose target is malformed,
\* the run has failed with InvalidIPFormat, the message naming the target, no
\* domain.resource.update call was issued and the cache file is as the run
\* found it; every update call that was issued carries a well-formed target.
C14_MalformedNeverSent ==
  /\ (UpdateStepTaken /\ Malformed) =>
       /\ Failed
       /\ error = "InvalidIPFormat"
       /\ report = MsgInvalidIP(ip)
       /\ ~UpdateCalled
       /\ Len(calls) = 2
       /\ writes = 0
       /\ cacheFile = cacheAtStart
  /\ UpdateCalled => ~Malformed

\* C14 (step part): the update step of a run with a malformed target appends
\* nothing to the call log and changes neither the provider nor the cache file.
C14_RejectedBeforeCall ==
  [][(pc = "UPDATE" /\ Malformed)
       => (calls' = calls /\ UNCHANGED env /\ pc' = "EXITED")]_vars

\* C14: validation ordering - a malformed target is rejected with
\* InvalidIPFormat before the domain.resource.update call; the call is not
\* issued and the cache is not written.
C14_ValidationOrdering == []C14_MalformedNeverSent /\ C14_RejectedBeforeCall

\* A run with a malformed target has been stopped at its update step while
\* the cache file holds entries of earlier runs.
C14_Witness ==
  /\ UpdateStepTaken
  /\ Malformed
  /\ error = "InvalidIPFormat"
  /\ cacheFile # EmptyCache

----------------------------------------------------------------------------
\* Persist frame

\* The mapping the run loaded from the cache file at its start.
Loaded == [k \in DOMAIN cacheAtStart |-> strip(cacheAtStart[k])]

\* C15 (the write): the cache write of a run puts the desired IP under the
\* run's key and, under every other key the run loaded, the IP the run
\* loaded; it adds no other key and drops none.
C15_WriteFrame ==
  [][(pc = "PERSIST" /\ pc' = "EXITED") =>
       /\ DOMAIN cacheFile' = DOMAIN Loaded \cup {RunKey}
       /\ cacheFile'[RunKey] = ip
       /\ \A k \in DOMAIN Loaded \ {RunKey} : cacheFile'[k] = Loaded[k]]_vars

\* C15 (over runs): no step removes a key from the cache file, and a step
\* changes what a reader finds under a key only if it is the write of a run
\* with that key.
C15_NeverPruned ==
  [][/\ DOMAIN cacheFile \subseteq DOMAIN cacheFile'
     /\ \A k \in DOMAIN cacheFile :
          strip(cacheFile'[k]) # strip(cacheFile[k]) =>
            (pc = "PERSIST" /\ k = RunKey)]_vars

\* C15: persist frame - the cache write of a successful run changes only the
\* entry under the run's key, setting it to the desired IP; every other key
\* the run read is still there with the IP the run read, over any sequence of
\* runs, so no entry is ever pruned.
C15_PersistFrame == C15_WriteFrame /\ C15_NeverPruned

\* A run has written the cache, which held an entry under another key.
C15_Witness ==
  /\ Succeeded
  /\ writes = 1
  /\ \E k \in DOMAIN cacheAtStart :
       k # RunKey /\ k \in DOMAIN cacheFile /\ cacheFile[k] = Loaded[k]

----------------------------------------------------------------------------
\* Two processes at the same time

OtherKey == other.args.resourceID \o <<".">> \o other.args.domainID
\* Both processes have exited with status zero after writing the cache file.
BothWrote ==
  /\ Succeeded
  /\ writes = 1
  /\ other.pc = "EXITED"
  /\ other.exitStatus = <<0>>
  /\ other.writes = 1

\* C16: concurrent runs lose cache updates - each process reads the whole
\* file once and writes the whole file once, without a lock, so after two
\* processes have both exited successfully the file is exactly what the last
\* one to write held (it is the process that stepped last): the entry of the
\* other process is missing from the file exactly when the keys differ and
\* the last writer had read the file before that entry was written.
C16_LastWriterWins ==
  BothWrote =>
    /\ cacheFile = cache
    /\ RunKey \in DOMAIN cacheFile
    /\ OtherKey \notin DOMAIN cacheFile <=>
         /\ OtherKey # RunKey
         /\ OtherKey \notin DOMAIN cacheAtStart

\* The interleaving of the claim: two processes with different keys have both
\* exited successfully, and the final cache file lacks the entry one of them
\* wrote, so the same invocation again would not find its IP in the cache.
C16_Witness ==
  /\ BothWrote
  /\ OtherKey # RunKey
  /\ RunKey \in DOMAIN cacheFile
  /\ OtherKey \notin DOMAIN cacheFile
  /\ ~CacheHit(ReadCache(cacheFile), OtherKey, other.ip)

----------------------------------------------------------------------------
\* Cache and provider

\* The provider-side target of the A record that the inputs (domainInput,
\* resourceInput) resolve to now; no target if they do not resolve.
TargetOf(domainInput, resourceInput) ==
  LET did == normalizeDomainID(domain_list, domainInput)
  IN  IF did = None THEN {}
      ELSE LET rid == normalizeResourceID(domain_resource_list(did), resourceInput)
           IN  IF rid = None THEN {} ELSE ProviderTargets(did, rid)

\* C17 (as claimed): between runs, whenever the cache holds an IP under the
\* key resourceInput.domainInput, the provider-side target of the A record
\* that (domainInput, resourceInput) resolves to is that IP (whitespace around
\* either value set aside).  Refuted: the record "h" of domain 10 set to one
\* IP through the key "h.10" and then to another through the key "h.e.c"
\* leaves the first IP in the cache under "h.10".
C17_CacheAgreesWithProvider ==
  pc \in {"IDLE", "EXITED"} =>
    \A d \in DomainInputs, r \in ResourceInputs :
      CacheKey(r, d) \in DOMAIN cacheFile =>
        /\ TargetOf(d, r) # {}
        /\ \A t \in TargetOf(d, r) : strip(t) = strip(cacheFile[CacheKey(r, d)])

\* C17 restricted to two successful runs without any failing call; refuted as
\* well, by the same record addressed through two keys.
C17_AgreesAfterCleanRuns ==
  ~(/\ Succeeded
    /\ AllCallsOk
    /\ prev # <<>>
    /\ prev[1].status = <<0>>
    /\ ~C17_CacheAgreesWithProvider)

----------------------------------------------------------------------------
\* What the cache holds

\* C18 (as claimed): every IP the cache file holds passes the validator and
\* was the target of an update call that returned without error, and a run
\* never skips on a malformed IP.  Refuted in its second part: "1.2 " is sent
\* and stored by one run, and the next run with another key writes the entry
\* back as "1.2", which no update call carried.
C18_OnlyValidatedIPsCached ==
  /\ \A k \in DOMAIN cacheFile :
       /\ inet_aton(cacheFile[k])
       /\ cacheFile[k] \in pushed
  /\ Skipped => inet_aton(ip)

\* C18 with the whitespace around the values set aside: every IP the cache
\* file holds passes the validator and is, up to surrounding whitespace, the
\* target of an update call that returned without error; no run skips on a
\* malformed IP.
C18_ValidatedUpToWhitespace ==
  /\ \A k \in DOMAIN cacheFile :
       /\ inet_aton(cacheFile[k])
       /\ \E t \in pushed : strip(t) = strip(cacheFile[k])
  /\ Skipped => inet_aton(ip)

----------------------------------------------------------------------------
\* Late validation of a supplied IP

\* The run was given a malformed IP with -ip.
SuppliedMalformed == pc # "IDLE" /\ args.ip # None /\ ~inet_aton(args.ip)

\* C19 (the step): at DETERMINE_IP an IP supplied with -ip is taken as it is,
\* well-formed or not, without a lookup and without an error; an IP that was
\* looked up goes on to the cache check only if it is well-formed.
C19_SuppliedNotValidated ==
  [][pc = "DETERMINE_IP" =>
       /\ args.ip # None =>
            /\ pc' = "CHECK_CACHE"
            /\ ip' = args.ip
            /\ error' = "none"
            /\ lookups' = lookups
       /\ (args.ip = None /\ pc' = "CHECK_CACHE") => inet_aton(ip')]_vars

\* C19 (the run): a run with a malformed supplied IP misses the cache; with
\* identifiers that resolve and list calls that do not fail it ends after
\* exactly the calls domain.list and domain.resource.list, with
\* InvalidIPFormat, a nonzero status, no update call and no cache write.
C19_FailsAtUpdate ==
  (SuppliedMalformed /\ Decided) =>
    /\ ~ShownCurrent
    /\ pc # "PERSIST"
    /\ ~UpdateCalled
    /\ writes = 0
    /\ cacheFile = cacheAtStart
    /\ (Finished /\ AllCallsOk /\ DomainMatches # {}
          /\ ResourceMatches(ExpectedDomainId) # {}) =>
         /\ CallActions = <<"domain.list", "domain.resource.list">>
         /\ error = "InvalidIPFormat"
         /\ report = MsgInvalidIP(args.ip)
         /\ exitStatus # <<0>>

\* C19: late validation of a supplied IP - an IP given with -ip is not
\* validated at DETERMINE_IP (a looked-up one is); on the cache miss a run
\* with a malformed supplied IP and resolvable identifiers first issues the
\* two list calls and only then fails with InvalidIPFormat at the update step,
\* with no update call, no cache write and a nonzero status.
C19_LateValidation == []C19_FailsAtUpdate /\ C19_SuppliedNotValidated

\* A first run with a malformed -ip has failed after its two list calls.
C19_Witness ==
  /\ SuppliedMalformed
  /\ Failed
  /\ error = "InvalidIPFormat"
  /\ Len(calls) = 2
  /\ AllCallsOk
  /\ prev = <<>>
============================================================================
